---- MODULE Spec2Model ----
(***************************************************************************)
(* Task/session execution orchestrator of autocodit-agent.                 *)
(*                                                                         *)
(* The model follows the backend sources:                                  *)
(*   app/services/runner_service.py   RunnerService (sessions, registry)   *)
(*   app/workers/task_executor.py     AgentExecutor.execute_task           *)
(*   app/workers/task_worker.py       execute_coding_task and its monitor  *)
(*   app/services/task_service.py     TaskService.create_task              *)
(*   app/api/v1/endpoints/*.py        the cancel / create endpoints        *)
(*                                                                         *)
(* The database rows are the shared state.  A worker writes the attributes *)
(* it assigned at its next commit and never reads a row again, so every    *)
(* write of a worker is a blind write of the row.  Each action is the code *)
(* between two commits (or two awaits of the monitor loop).                *)
(*                                                                         *)
(* The services write the session phases PLANNING, EXECUTING and           *)
(* VALIDATING; they are kept under the names the services use and count    *)
(* as phases of a running session.                                         *)
(***************************************************************************)
EXTENDS Integers, Sequences, FiniteSets, TLC

(* ------------------------------ bounds -------------------------------- *)
NumTasks == 2
MaxSessions == 2
NumWorkers == 2
MaxTimeoutMinutes == 1
MaxMonitorTimeoutMinutes == 2
MaxConfiguredCap == 1
NumConnections == 2
NumPublishers == 2
MaxMessages == 2
NumKeys == 2
MaxSteps == 3
NumClients == 2
MaxTime == 3
MaxRequestsMade == 4
\* The limits of RateLimitMiddleware are (60, 60), (120, 60) and (300, 60):
\* requests per window and seconds of the window.  _check_rate_limit is the
\* same code for every value; it is checked here with small ones.
TasksLimit == 1
SessionsLimit == 2
DefaultLimit == 2
WindowSeconds == 1

Tasks == 1..NumTasks
Sessions == 1..MaxSessions
Workers == 1..NumWorkers
Connections == 1..NumConnections
Publishers == 1..NumPublishers
Keys == 1..NumKeys

(* ------------------------- program constants -------------------------- *)
max_retries == 3
POLL_SECONDS == 10
BACKOFF_BASE == 60
SECONDS_PER_MINUTE == 60
DEFAULT_TIMEOUT_MINUTES == 60

\* Progress values in thousandths: 0.1 at the start of an attempt, the cap
\* 0.9 of the monitor, 1.0 on success.
INITIAL_PROGRESS == 100
PROGRESS_CAP == 900
PROGRESS_ONE == 1000

\* TaskPriority, and the default of create_task.
Priorities == {"low", "normal", "high", "urgent"}
DEFAULT_PRIORITY == "normal"

\* The rank of a priority in urgent > high > normal > low.
PriorityRank(p) ==
    CASE p = "low" -> 0 [] p = "normal" -> 1 [] p = "high" -> 2 [] p = "urgent" -> 3

VARIABLES
    runnerMaxConcurrent,  \* settings.RUNNER_MAX_CONCURRENT, read once at start
    taskStatus,           \* Task.status of each task row ("none": no row)
    taskPriority,         \* Task.priority of each task row
    queue,                \* the coding_tasks queue: messages [task, retries, timeout]
    celeryState,          \* state of the task's Celery job in the result backend
    cancelSignal,         \* tasks whose cancellation was requested while running
    cancelledQueued,      \* history: tasks whose cancellation was accepted while queued
    nextSession,          \* next fresh session id
    sessTask,             \* Session.task_id (0: no row)
    sessStatus,           \* Session.status
    sessContainer,        \* Session.container_id is set in the row
    sessCompletedAt,      \* Session.completed_at: 0 unset, 1 set, 2 set again later
    activeSessions,       \* keys of RunnerService.active_sessions
    stoppedContainers,    \* sessions whose container was sent a stop
    worker,               \* per worker process: position and locals
    active_connections,   \* ConnectionManager.active_connections: user -> sockets
    task_subscriptions,   \* ConnectionManager.task_subscriptions: task -> users
    session_subscriptions,\* ConnectionManager.session_subscriptions: session -> users
    connection_metadata,  \* ConnectionManager.connection_metadata: socket -> user
    requested,            \* history: topics each socket asked for and did not drop
    lastPublish,          \* history: topic, sends and deliveries of the last broadcast
    publisher,            \* per broadcast coroutine: its message and the sockets left
    inbox,                \* history: per socket, the messages in the order sent to it
    nextMessage,          \* history: the number of the next broadcast call
    taskKey,              \* history: the idempotency key each task was submitted with
    shutdownRequested,    \* the lifespan of the API has reached its shutdown part
    runnerMonitor,        \* workers/task_worker: locals of _monitor_task_execution
    agent,                \* one run of a plan: the executor's locals and what it reported
    limiter,              \* RateLimitMiddleware.requests, with the history of its decisions
    cleaned               \* history: the sessions the last cleanup_finished_sessions counted

vars == <<runnerMaxConcurrent, taskStatus, taskPriority, queue, celeryState, cancelSignal, cancelledQueued,
          nextSession, sessTask, sessStatus, sessContainer, sessCompletedAt,
          activeSessions, stoppedContainers, worker,
          active_connections, task_subscriptions, session_subscriptions,
          connection_metadata, requested, lastPublish,
          publisher, inbox, nextMessage, taskKey, shutdownRequested, runnerMonitor, agent, limiter, cleaned>>

facadeVars == <<taskKey, shutdownRequested>>

sideVars == <<runnerMonitor, agent, limiter, cleaned>>

pubVars == <<publisher, inbox, nextMessage>>

wsVars == <<active_connections, task_subscriptions, session_subscriptions,
            connection_metadata, requested, lastPublish>>

coreVars == <<runnerMaxConcurrent, taskStatus, taskPriority, queue, celeryState,
              cancelSignal, cancelledQueued, nextSession, sessTask, sessStatus,
              sessContainer, sessCompletedAt, activeSessions, stoppedContainers, worker>>

sessVars == <<nextSession, sessTask, sessStatus, sessContainer, sessCompletedAt,
              activeSessions, stoppedContainers>>

(* ------------------------------ helpers ------------------------------- *)
TaskFinished(st) == st \in {"completed", "failed", "cancelled"}

SessionFinished(st) == st \in {"completed", "failed", "cancelled", "timeout"}

SessionExists(s) == sessStatus[s] # "none"

NonTerminalSessions(t) ==
    {s \in Sessions : sessTask[s] = t /\ SessionExists(s) /\ ~SessionFinished(sessStatus[s])}

SessionsOf(t) == {s \in Sessions : sessTask[s] = t /\ SessionExists(s)}

IdleWorker ==
    [pc |-> "idle", task |-> 0, retries |-> 0, timeout |-> 0, countdown |-> 0, sess |-> 0,
     elapsed |-> 0, sent |-> 0, outcome |-> "none"]

Stamp(n) == IF n = 0 THEN 1 ELSE 2

\* websocket_endpoint gives every connection the user id "anonymous".
Users == {"anonymous"}
NoUser == "none"

\* The topics of the broadcaster: one per task and one per session.
Topics == ({"task"} \X Tasks) \cup ({"session"} \X Sessions)

\* A submission without an idempotency key.
NoKey == 0

\* A broadcast coroutine that is not running.
PublisherIdle == [msg |-> 0, topic |-> <<"none", 0>>, conns |-> {}]

\* workers/task_worker._monitor_task_execution before it is entered: reported
\* is the last progress handed to update_task_status and to the broadcast, in
\* thousandths; success and message are the fields of execution_result.
MonitorIdle ==
    [pc |-> "idle", iteration |-> 0, success |-> FALSE,
     reported |-> 0, message |-> "none", cancelled |-> FALSE]

\* A run of a plan before it starts.  plan: per step, whether it is critical;
\* i: the index of enumerate(); executed: the steps handed to execute_step, in
\* the order of the calls; failed: the steps that failed; reports: the calls
\* of update_task_status, in order; exit: the exit code of the process.
AgentIdle ==
    [side |-> "none", pc |-> "idle", plan |-> <<>>, i |-> 0, executed |-> <<>>,
     failed |-> {}, reports |-> <<>>, success |-> FALSE, exit |-> "none"]

\* RateLimitMiddleware after __init__.  Paths are lists of pieces, so that
\* str.startswith is the prefix test on lists.
Clients == 1..NumClients
TASKS_PREFIX == <<"/api/v1/tasks">>
SESSIONS_PREFIX == <<"/api/v1/sessions">>
DEFAULT_PREFIX == <<"default">>
Prefixes == {TASKS_PREFIX, SESSIONS_PREFIX, DEFAULT_PREFIX}
LimiterKeys == Clients \X Prefixes
limits(prefix) ==
    CASE prefix = TASKS_PREFIX -> <<TasksLimit, WindowSeconds>>
      [] prefix = SESSIONS_PREFIX -> <<SessionsLimit, WindowSeconds>>
      [] OTHER -> <<DefaultLimit, WindowSeconds>>

\* requests: the deque of each key; admitted: history, per key the number of
\* requests admitted at each time; last: history, the last request decided;
\* made: the number of requests decided so far.
LimiterIdle ==
    [requests |-> [k \in LimiterKeys |-> <<>>],
     admitted |-> [k \in LimiterKeys |-> [t \in 0..MaxTime |-> 0]],
     last |-> [key |-> <<0, DEFAULT_PREFIX>>, time |-> 0, admitted |-> FALSE],
     made |-> 0]

(* ------------------------------- Init --------------------------------- *)
Init ==
    /\ runnerMaxConcurrent \in 1..MaxConfiguredCap
    /\ taskStatus = [t \in Tasks |-> "none"]
    /\ taskPriority = [t \in Tasks |-> DEFAULT_PRIORITY]
    /\ queue = <<>>
    /\ celeryState = [t \in Tasks |-> "PENDING"]
    /\ cancelSignal = {}
    /\ cancelledQueued = {}
    /\ nextSession = 1
    /\ sessTask = [s \in Sessions |-> 0]
    /\ sessStatus = [s \in Sessions |-> "none"]
    /\ sessContainer = [s \in Sessions |-> FALSE]
    /\ sessCompletedAt = [s \in Sessions |-> 0]
    /\ activeSessions = {}
    /\ stoppedContainers = {}
    /\ worker = [w \in Workers |-> IdleWorker]
    /\ active_connections = [u \in Users |-> {}]
    /\ task_subscriptions = [t \in Tasks |-> {}]
    /\ session_subscriptions = [x \in Sessions |-> {}]
    /\ connection_metadata = [c \in Connections |-> NoUser]
    /\ requested = [c \in Connections |-> {}]
    /\ lastPublish = [topic |-> <<"none", 0>>,
                      attempts |-> [c \in Connections |-> 0],
                      delivered |-> {}]
    /\ publisher = [p \in Publishers |-> PublisherIdle]
    /\ inbox = [c \in Connections |-> <<>>]
    /\ nextMessage = 1
    /\ taskKey = [t \in Tasks |-> NoKey]
    /\ shutdownRequested = FALSE
    /\ runnerMonitor = MonitorIdle
    /\ agent = AgentIdle
    /\ limiter = LimiterIdle
    /\ cleaned = {}

(* ----------------------- TaskService operations ----------------------- *)
\* TaskService._queue_task: publish the task, with its configuration, on the
\* coding_tasks queue.
QueueTask(q, t, retries, minutes) ==
    Append(q, [task |-> t, retries |-> retries, timeout |-> minutes, countdown |-> 0])

\* TaskService.create_task: insert the row (Task.status defaults to QUEUED)
\* with the requested priority and queue the task for execution.
Submit(t, minutes, priority) ==
    /\ taskStatus[t] = "none"
    /\ taskStatus' = [taskStatus EXCEPT ![t] = "queued"]
    /\ taskPriority' = [taskPriority EXCEPT ![t] = priority]
    /\ queue' = QueueTask(queue, t, 0, minutes)
    /\ UNCHANGED <<wsVars, pubVars, facadeVars, sideVars, runnerMaxConcurrent, cancelledQueued, celeryState, cancelSignal, sessVars, worker>>

\* What a POST /tasks can come to: the request fails the validation of
\* CreateTaskRequest; the insert or its commit raises; a statement after the
\* commit (the refresh, the queueing) raises; the task is created.
SubmitOutcomes == {"invalid", "insert_fails", "fails_after_commit", "created"}

\* POST /tasks -> TaskService.create_task, with the idempotency key the
\* caller supplied (NoKey for none).  CreateTaskRequest has no field for the
\* key and create_task no parameter: the key decides nothing.  The row is
\* committed before it is refreshed and queued, and the rollback of the
\* except branch comes after that commit.
SubmitRequest(t, key, outcome) ==
    /\ taskStatus[t] = "none"
    /\ CASE outcome \in {"invalid", "insert_fails"} ->
              UNCHANGED <<taskStatus, taskPriority, queue, taskKey>>
         [] outcome = "fails_after_commit" ->
              /\ taskStatus' = [taskStatus EXCEPT ![t] = "queued"]
              /\ taskKey' = [taskKey EXCEPT ![t] = key]
              /\ UNCHANGED <<taskPriority, queue>>
         [] OTHER ->
              /\ taskStatus' = [taskStatus EXCEPT ![t] = "queued"]
              /\ taskKey' = [taskKey EXCEPT ![t] = key]
              /\ queue' = QueueTask(queue, t, 0, DEFAULT_TIMEOUT_MINUTES)
              /\ UNCHANGED taskPriority
    /\ UNCHANGED <<wsVars, pubVars, sideVars, shutdownRequested, runnerMaxConcurrent,
                   cancelledQueued, celeryState, cancelSignal, sessVars, worker>>

\* TaskService.update_task_status(task_id, status, ...): store the status.
update_task_status(ts, t, st) == [ts EXCEPT ![t] = st]

\* TaskService.cancel_task: what the call returns.
cancel_task_returns(t) == taskStatus[t] \in {"queued", "running"}

\* POST /tasks/{id}/cancel -> TaskService.cancel_task.  A queued task is
\* taken off the queue and becomes Cancelled; for a running task the
\* cancellation is signalled to its monitor; a finished or unknown task is
\* left alone (the endpoint answers 404).
CancelTask(t) ==
    /\ \/ /\ taskStatus[t] = "queued"
          /\ taskStatus' = [taskStatus EXCEPT ![t] = "cancelled"]
          /\ queue' = SelectSeq(queue, LAMBDA m : m.task # t)
          /\ cancelledQueued' = cancelledQueued \cup {t}
          /\ UNCHANGED cancelSignal
       \/ /\ taskStatus[t] = "running"
          /\ cancelSignal' = cancelSignal \cup {t}
          /\ UNCHANGED <<taskStatus, queue, cancelledQueued>>
       \/ /\ ~cancel_task_returns(t)
          /\ UNCHANGED <<taskStatus, queue, cancelSignal, cancelledQueued>>
    /\ UNCHANGED <<wsVars, pubVars, facadeVars, sideVars, runnerMaxConcurrent, taskPriority, celeryState, sessVars, worker>>

(* ---------------------- RunnerService operations ---------------------- *)
\* RunnerService._stop_container and the registry removal of stop_session:
\* both happen only when the row has a container id and the session is in
\* the registry.
StopsContainer(s) == sessContainer[s] /\ s \in activeSessions

\* RunnerService.stop_session: what the call returns.
stop_session_returns(s) == SessionExists(s)

\* RunnerService.stop_session: the row's status after the call.
stop_session_status(s) == "cancelled"

\* RunnerService.stop_session(session_id).
StopSession(s) ==
    /\ IF ~SessionExists(s)
       THEN UNCHANGED sessVars
       ELSE /\ stoppedContainers' =
                 IF StopsContainer(s) THEN stoppedContainers \cup {s} ELSE stoppedContainers
            /\ activeSessions' =
                 IF StopsContainer(s) THEN activeSessions \ {s} ELSE activeSessions
            /\ sessStatus' = [sessStatus EXCEPT ![s] = stop_session_status(s)]
            /\ sessCompletedAt' = [sessCompletedAt EXCEPT ![s] = Stamp(@)]
            /\ UNCHANGED <<nextSession, sessTask, sessContainer>>
    /\ UNCHANGED <<wsVars, pubVars, facadeVars, sideVars, runnerMaxConcurrent, taskPriority, cancelledQueued, celeryState, taskStatus, queue, cancelSignal, worker>>

\* main.cleanup_services, the shutdown part of the lifespan:
\* runner_service.cleanup_all_sessions() stops every session of the registry
\* as stop_session does.  Nothing there touches the queue or the workers.
Shutdown ==
    /\ ~shutdownRequested
    /\ shutdownRequested' = TRUE
    /\ stoppedContainers' = stoppedContainers \cup {s \in activeSessions : StopsContainer(s)}
    /\ activeSessions' = {}
    /\ sessStatus' = [s \in Sessions |->
                        IF s \in activeSessions THEN stop_session_status(s)
                        ELSE sessStatus[s]]
    /\ sessCompletedAt' = [s \in Sessions |->
                             IF s \in activeSessions THEN Stamp(sessCompletedAt[s])
                             ELSE sessCompletedAt[s]]
    /\ UNCHANGED <<wsVars, pubVars, sideVars, taskKey, runnerMaxConcurrent, taskStatus, taskPriority,
                   queue, celeryState, cancelSignal, cancelledQueued, nextSession,
                   sessTask, sessContainer, worker>>

(* --------------------------- Celery worker ---------------------------- *)
\* A worker process reserves the next message of the queue.
Dequeue(w) ==
    /\ worker[w].pc = "idle"
    /\ queue # <<>>
    /\ worker' = [worker EXCEPT ![w] =
                    [IdleWorker EXCEPT !.pc = "recv", !.task = Head(queue).task,
                                       !.retries = Head(queue).retries,
                                       !.timeout = Head(queue).timeout,
                                       !.countdown = Head(queue).countdown]]
    /\ queue' = Tail(queue)
    /\ UNCHANGED <<wsVars, pubVars, facadeVars, sideVars, runnerMaxConcurrent, taskPriority, cancelledQueued, celeryState, taskStatus, cancelSignal, sessVars>>

(* ------------------ AgentExecutor.execute_task (executor) ------------- *)
\* execute_task, lines 42-48: load the task, set RUNNING, commit.
ExecStart(w) ==
    /\ worker[w].pc = "recv"
    /\ taskStatus' = [taskStatus EXCEPT ![worker[w].task] = "running"]
    /\ worker' = [worker EXCEPT ![w].pc = "a_create"]
    /\ UNCHANGED <<wsVars, pubVars, facadeVars, sideVars, runnerMaxConcurrent, taskPriority, cancelledQueued, celeryState, queue, cancelSignal, sessVars>>

\* The except branch of execute_task: the task becomes FAILED, the error is
\* raised to Celery, which does not retry this task.
ExecHandler(w) ==
    /\ taskStatus' = [taskStatus EXCEPT ![worker[w].task] = "failed"]
    /\ celeryState' = [celeryState EXCEPT ![worker[w].task] = "FAILURE"]
    /\ worker' = [worker EXCEPT ![w] = IdleWorker]

\* RunnerService.create_session with _start_container_execution.  The row is
\* committed as INITIALIZING; the container id, EXECUTING and started_at are
\* assigned on the worker's object and reach the row with its next commit.
\* res = "start_failed": the container cannot be started, the FAILED status
\* is rolled back and the error reaches execute_task's except branch.
\* res = "no_row": the insert itself fails and is rolled back.
ExecCreateSession(w, res) ==
    /\ worker[w].pc = "a_create"
    /\ nextSession <= MaxSessions
    /\ IF res = "no_row"
       THEN UNCHANGED <<sessTask, sessStatus, nextSession>>
       ELSE /\ sessTask' = [sessTask EXCEPT ![nextSession] = worker[w].task]
            /\ sessStatus' = [sessStatus EXCEPT ![nextSession] = "initializing"]
            /\ nextSession' = nextSession + 1
    /\ IF res = "started"
       THEN /\ activeSessions' = activeSessions \cup {nextSession}
            /\ worker' = [worker EXCEPT ![w].pc = "a_plan", ![w].sess = nextSession]
            /\ UNCHANGED <<taskStatus, celeryState>>
       ELSE /\ ExecHandler(w)
            /\ UNCHANGED activeSessions
    /\ UNCHANGED <<wsVars, pubVars, facadeVars, sideVars, runnerMaxConcurrent, taskPriority, cancelledQueued, queue, cancelSignal,
                   sessContainer, sessCompletedAt, stoppedContainers>>

\* _analyze_and_plan, lines 107-109: PLANNING is committed, together with
\* the container id assigned by create_session.
ExecPlan(w) ==
    /\ worker[w].pc = "a_plan"
    /\ sessStatus' = [sessStatus EXCEPT ![worker[w].sess] = "planning"]
    /\ sessContainer' = [sessContainer EXCEPT ![worker[w].sess] = TRUE]
    /\ worker' = [worker EXCEPT ![w].pc = "a_execute"]
    /\ UNCHANGED <<wsVars, pubVars, facadeVars, sideVars, runnerMaxConcurrent, taskPriority, cancelledQueued, celeryState, taskStatus, queue, cancelSignal, nextSession,
                   sessTask, sessCompletedAt, activeSessions, stoppedContainers>>

\* _execute_plan, lines 163-165: EXECUTING is committed.
ExecExecute(w) ==
    /\ worker[w].pc = "a_execute"
    /\ sessStatus' = [sessStatus EXCEPT ![worker[w].sess] = "executing"]
    /\ worker' = [worker EXCEPT ![w].pc = "a_validate"]
    /\ UNCHANGED <<wsVars, pubVars, facadeVars, sideVars, runnerMaxConcurrent, taskPriority, cancelledQueued, celeryState, taskStatus, queue, cancelSignal, nextSession,
                   sessTask, sessContainer, sessCompletedAt, activeSessions,
                   stoppedContainers>>

\* _validate_results, lines 236-238: VALIDATING is committed.
ExecValidate(w) ==
    /\ worker[w].pc = "a_validate"
    /\ sessStatus' = [sessStatus EXCEPT ![worker[w].sess] = "validating"]
    /\ worker' = [worker EXCEPT ![w].pc = "a_final"]
    /\ UNCHANGED <<wsVars, pubVars, facadeVars, sideVars, runnerMaxConcurrent, taskPriority, cancelledQueued, celeryState, taskStatus, queue, cancelSignal, nextSession,
                   sessTask, sessContainer, sessCompletedAt, activeSessions,
                   stoppedContainers>>

\* execute_task, lines 78: the status written for the session at the end.
FinalSessionStatus(cur, success) == IF success THEN "completed" ELSE "failed"

\* execute_task, lines 65-81: the task and the session get their final
\* status and completed_at in one commit.
ExecFinish(w, success) ==
    /\ worker[w].pc = "a_final"
    /\ taskStatus' = [taskStatus EXCEPT ![worker[w].task] =
                        IF success THEN "completed" ELSE "failed"]
    /\ sessStatus' = [sessStatus EXCEPT ![worker[w].sess] =
                        FinalSessionStatus(@, success)]
    /\ celeryState' = [celeryState EXCEPT ![worker[w].task] = "SUCCESS"]
    /\ sessCompletedAt' = [sessCompletedAt EXCEPT ![worker[w].sess] = Stamp(@)]
    /\ worker' = [worker EXCEPT ![w] = IdleWorker]
    /\ UNCHANGED <<wsVars, pubVars, facadeVars, sideVars, runnerMaxConcurrent, taskPriority, cancelledQueued, queue, cancelSignal, nextSession,
                   sessTask, sessContainer, activeSessions, stoppedContainers>>

\* An exception of a planning, execution, validation or pull-request call
\* (AI or GitHub service, a critical step): execute_task's except branch.
\* The session row keeps the phase committed last.
ExecRaise(w) ==
    /\ worker[w].pc \in {"a_execute", "a_validate", "a_final"}
    /\ ExecHandler(w)
    /\ UNCHANGED <<wsVars, pubVars, facadeVars, sideVars, runnerMaxConcurrent, taskPriority, cancelledQueued, queue, cancelSignal, sessVars>>

(* -------------- RunnerService: the runner interface -------------------- *)
\* RunnerService.create_runner(task_id, config): a session row is created
\* Initializing and its runtime is started; the session is Running with its
\* handle registered (res = "started"), or Failed with no handle when the
\* runtime cannot be created (res = "start_failed"); with res = "no_row" the
\* call fails before a row is written.  Both failures raise to the caller.
CreateRunner(t, res) ==
    /\ nextSession <= MaxSessions
    /\ IF res = "no_row"
       THEN UNCHANGED sessVars
       ELSE /\ sessTask' = [sessTask EXCEPT ![nextSession] = t]
            /\ sessStatus' = [sessStatus EXCEPT ![nextSession] =
                                IF res = "started" THEN "running" ELSE "failed"]
            /\ sessContainer' = [sessContainer EXCEPT ![nextSession] = (res = "started")]
            /\ sessCompletedAt' = [sessCompletedAt EXCEPT ![nextSession] =
                                     IF res = "started" THEN @ ELSE Stamp(@)]
            /\ activeSessions' = IF res = "started"
                                 THEN activeSessions \cup {nextSession}
                                 ELSE activeSessions
            /\ nextSession' = nextSession + 1
            /\ UNCHANGED stoppedContainers

\* RunnerService.cancel_runner: what the call returns (false when the
\* session is unknown or already terminal).
cancel_runner_returns(s) == SessionExists(s) /\ ~SessionFinished(sessStatus[s])

\* RunnerService.cancel_runner(session_id): stop the runtime, release the
\* handle and make the session Cancelled; nothing changes when it returns
\* false.
CancelRunner(s) ==
    IF cancel_runner_returns(s)
    THEN /\ stoppedContainers' = stoppedContainers \cup {s}
         /\ activeSessions' = activeSessions \ {s}
         /\ sessStatus' = [sessStatus EXCEPT ![s] = "cancelled"]
         /\ sessCompletedAt' = [sessCompletedAt EXCEPT ![s] = Stamp(@)]
         /\ UNCHANGED <<nextSession, sessTask, sessContainer>>
    ELSE UNCHANGED sessVars

\* POST /sessions -> RunnerService.create_runner(task_id, config).
ApiCreateSession(t, res) ==
    /\ taskStatus[t] # "none"
    /\ res # "no_row"
    /\ CreateRunner(t, res)
    /\ UNCHANGED <<wsVars, pubVars, facadeVars, sideVars, runnerMaxConcurrent, taskPriority, cancelledQueued, celeryState, taskStatus, queue, cancelSignal, worker>>

\* DELETE /sessions/{id} -> RunnerService.cancel_runner(session_id).
ApiCancelSession(s) ==
    /\ CancelRunner(s)
    /\ UNCHANGED <<wsVars, pubVars, facadeVars, sideVars, runnerMaxConcurrent, taskPriority, cancelledQueued, celeryState, taskStatus, queue, cancelSignal, worker>>

(* ------------- execute_coding_task (app/workers/task_worker) ---------- *)
\* A faulty retry policy, which allows one retry more than max_retries.
ShouldRetryOnceMore(retries) == retries <= max_retries

\* Celery's Task.retry for a task declared with max_retries: the message is
\* published again while the incremented retry count does not exceed
\* max_retries; otherwise the error is raised and the task is given up.
ShouldRetry(retries) == retries + 1 <= max_retries

RECURSIVE Pow2(_)
Pow2(k) == IF k = 0 THEN 1 ELSE 2 * Pow2(k - 1)

\* A countdown whose exponent is one too high.
RetryCountdownOneMore(retries) == BACKOFF_BASE * Pow2(retries + 1)

\* execute_coding_task, line 49: countdown = 60 * (2 ** self.request.retries).
RetryCountdown(retries) == BACKOFF_BASE * Pow2(retries)

\* Celery's Task.retry(countdown=...): the message is published again with
\* the incremented retry count and the countdown as its delay.
RetryTask(q, t, retries, minutes, countdown) ==
    Append(q, [task |-> t, retries |-> retries, timeout |-> minutes,
               countdown |-> countdown])

\* The except branch of _execute_coding_task_async followed by the except
\* branch of execute_coding_task: the task becomes FAILED, then the task is
\* retried (published again with retries + 1) or given up.
WorkerHandler(w) ==
    /\ taskStatus' = update_task_status(taskStatus, worker[w].task, "failed")
    /\ celeryState' = [celeryState EXCEPT ![worker[w].task] =
                         IF ShouldRetry(worker[w].retries) THEN "RETRY" ELSE "FAILURE"]
    /\ queue' = IF ShouldRetry(worker[w].retries)
                THEN RetryTask(queue, worker[w].task, worker[w].retries + 1,
                               worker[w].timeout, RetryCountdown(worker[w].retries))
                ELSE queue
    /\ worker' = [worker EXCEPT ![w] = IdleWorker]

\* _execute_coding_task_async, lines 60-68: the task becomes RUNNING.
WorkerStart(w) ==
    /\ worker[w].pc = "recv"
    /\ taskStatus' = update_task_status(taskStatus, worker[w].task, "running")
    /\ worker' = [worker EXCEPT ![w].pc = "b_create"]
    /\ UNCHANGED <<wsVars, pubVars, facadeVars, sideVars, runnerMaxConcurrent, taskPriority, cancelledQueued, celeryState, queue, cancelSignal, sessVars>>

\* _execute_coding_task_async, line 71: create the runner session; an
\* error of create_runner goes to the except branch.
WorkerCreateRunner(w, res) ==
    /\ worker[w].pc = "b_create"
    /\ CreateRunner(worker[w].task, res)
    /\ IF res = "started"
       THEN /\ worker' = [worker EXCEPT ![w].pc = "b_poll", ![w].sess = nextSession]
            /\ UNCHANGED <<taskStatus, queue, celeryState>>
       ELSE WorkerHandler(w)
    /\ UNCHANGED <<wsVars, pubVars, facadeVars, sideVars, runnerMaxConcurrent, taskPriority, cancelledQueued, cancelSignal>>

RunnerStatusValues == {"none", "running", "exited0", "exited1", "raise"}

\* _monitor_task_execution, lines 208-209.
TimeoutSeconds(minutes) == minutes * SECONDS_PER_MINUTE

\* _monitor_task_execution, line 223.
TimedOut(elapsed, timeout) == elapsed > timeout

\* One pass of the loop of _monitor_task_execution: sleep, read the runner
\* status st ("none": no status, "raise": the call raises), return on a
\* lost or finished container, else report progress and check the timeout
\* against the clock reading elapsed (seconds since the monitor started).
\* The progress quotient elapsed / timeout raises for a timeout of 0.
\* A pass that finds the runner still running within its budget broadcasts
\* the progress computed from elapsed and goes round the loop again.  Every
\* pass sleeps POLL_SECONDS first, so the readings of the clock grow by at
\* least that much from one pass to the next; worker[w].elapsed is the
\* reading of the last pass that went round and worker[w].sent the number
\* of progress events the monitor has broadcast so far.
WorkerPoll(w, elapsed, st) ==
    LET s == worker[w].sess
        timeout == TimeoutSeconds(worker[w].timeout)
        leave(result) == [worker EXCEPT ![w].pc = "b_final", ![w].outcome = result,
                                        ![w].elapsed = 0, ![w].sent = 0]
    IN  /\ worker[w].pc = "b_poll"
        /\ elapsed >= worker[w].elapsed + POLL_SECONDS
        /\ CASE st = "raise" ->
                  /\ WorkerHandler(w)
                  /\ UNCHANGED sessVars
             [] st = "none" ->
                  /\ worker' = leave("lost")
                  /\ UNCHANGED <<taskStatus, queue, celeryState, sessVars>>
             [] st = "exited0" ->
                  /\ worker' = leave("success")
                  /\ UNCHANGED <<taskStatus, queue, celeryState, sessVars>>
             [] st = "exited1" ->
                  /\ worker' = leave("exit_failed")
                  /\ UNCHANGED <<taskStatus, queue, celeryState, sessVars>>
             [] st = "running" /\ timeout = 0 ->
                  /\ WorkerHandler(w)
                  /\ UNCHANGED sessVars
             [] st = "running" /\ timeout # 0 /\ TimedOut(elapsed, timeout) ->
                  /\ CancelRunner(s)
                  /\ worker' = leave("timeout")
                  /\ UNCHANGED <<taskStatus, queue, celeryState>>
             [] OTHER ->
                  /\ worker' = [worker EXCEPT ![w].elapsed = elapsed,
                                               ![w].sent = @ + 1]
                  /\ UNCHANGED <<taskStatus, queue, celeryState, sessVars>>
        /\ UNCHANGED <<wsVars, pubVars, facadeVars, sideVars, runnerMaxConcurrent, taskPriority, cancelledQueued, cancelSignal>>

\* _execute_coding_task_async, lines 85-114: the task gets its final status
\* from the monitor's result and the Celery task returns.
WorkerFinalize(w) ==
    /\ worker[w].pc = "b_final"
    /\ taskStatus' = update_task_status(taskStatus, worker[w].task,
                        IF worker[w].outcome = "success" THEN "completed" ELSE "failed")
    /\ celeryState' = [celeryState EXCEPT ![worker[w].task] = "SUCCESS"]
    /\ worker' = [worker EXCEPT ![w] = IdleWorker]
    /\ UNCHANGED <<wsVars, pubVars, facadeVars, sideVars, runnerMaxConcurrent, taskPriority, cancelledQueued, queue, cancelSignal, sessVars>>

(* ---------------------- ConnectionManager (websocket) ------------------ *)
\* A broadcast that would go to every user, subscribed or not.
EveryUser(topic) == Users

\* The users subscribed to a topic; a key that is absent from the
\* dictionary is an empty set here.
Subscribers(topic) ==
    IF topic[1] = "task" THEN task_subscriptions[topic[2]]
    ELSE session_subscriptions[topic[2]]

\* A send_user_message that would send to each socket of the user twice.
send_user_message_twice(u, c) == IF c \in active_connections[u] THEN 2 ELSE 0

\* ConnectionManager.send_user_message: the number of sends to socket c
\* when the message goes to user u.
send_user_message_sends(u, c) == IF c \in active_connections[u] THEN 1 ELSE 0

RECURSIVE SumSends(_, _)
SumSends(us, c) ==
    IF us = {} THEN 0
    ELSE LET u == CHOOSE x \in us : TRUE
         IN  send_user_message_sends(u, c) + SumSends(us \ {u}, c)

\* broadcast_task_update / broadcast_session_update: the number of sends to
\* socket c in one broadcast to the topic.
Sends(topic, c) == SumSends(Subscribers(topic), c)

\* The sockets one broadcast to the topic sends to.
Recipients(topic) == {c \in Connections : Sends(topic, c) > 0}

\* ConnectionManager.disconnect for every socket of D: the socket leaves the
\* connections of its user and the metadata, and the user of the socket
\* leaves every task and session subscription.
DisconnectAll(D) ==
    LET gone == {connection_metadata[c] : c \in D} \ {NoUser}
    IN  /\ active_connections' = [u \in Users |-> active_connections[u] \ D]
        /\ task_subscriptions' = [t \in Tasks |-> task_subscriptions[t] \ gone]
        /\ session_subscriptions' =
              [x \in Sessions |-> session_subscriptions[x] \ gone]
        /\ connection_metadata' =
              [c \in Connections |-> IF c \in D THEN NoUser ELSE connection_metadata[c]]
        /\ requested' = [c \in Connections |-> IF c \in D THEN {} ELSE requested[c]]

\* websocket_endpoint up to its receive loop: ConnectionManager.connect
\* registers the socket and sends the welcome message; when that send fails
\* send_personal_message disconnects the socket again.
Connect(c, u, sendFails) ==
    /\ connection_metadata[c] = NoUser
    /\ IF sendFails
       THEN /\ task_subscriptions' = [t \in Tasks |-> task_subscriptions[t] \ {u}]
            /\ session_subscriptions' =
                  [x \in Sessions |-> session_subscriptions[x] \ {u}]
            /\ UNCHANGED <<active_connections, connection_metadata>>
       ELSE /\ active_connections' = [active_connections EXCEPT ![u] = @ \cup {c}]
            /\ connection_metadata' = [connection_metadata EXCEPT ![c] = u]
            /\ UNCHANGED <<task_subscriptions, session_subscriptions>>
    /\ UNCHANGED <<requested, lastPublish, coreVars, pubVars, facadeVars, sideVars>>

\* websocket_endpoint, "subscribe_task" / "subscribe_session":
\* subscribe_to_task / subscribe_to_session with the user of the socket.
Subscribe(c, topic) ==
    /\ connection_metadata[c] # NoUser
    /\ IF topic[1] = "task"
       THEN /\ task_subscriptions' =
                 [task_subscriptions EXCEPT ![topic[2]] = @ \cup {connection_metadata[c]}]
            /\ UNCHANGED session_subscriptions
       ELSE /\ session_subscriptions' =
                 [session_subscriptions EXCEPT ![topic[2]] = @ \cup {connection_metadata[c]}]
            /\ UNCHANGED task_subscriptions
    /\ requested' = [requested EXCEPT ![c] = @ \cup {topic}]
    /\ UNCHANGED <<active_connections, connection_metadata, lastPublish, coreVars, pubVars, facadeVars, sideVars>>

\* websocket_endpoint, "unsubscribe_task" / "unsubscribe_session".
Unsubscribe(c, topic) ==
    /\ connection_metadata[c] # NoUser
    /\ IF topic[1] = "task"
       THEN /\ task_subscriptions' =
                 [task_subscriptions EXCEPT ![topic[2]] = @ \ {connection_metadata[c]}]
            /\ UNCHANGED session_subscriptions
       ELSE /\ session_subscriptions' =
                 [session_subscriptions EXCEPT ![topic[2]] = @ \ {connection_metadata[c]}]
            /\ UNCHANGED task_subscriptions
    /\ requested' = [requested EXCEPT ![c] = @ \ {topic}]
    /\ UNCHANGED <<active_connections, connection_metadata, lastPublish, coreVars, pubVars, facadeVars, sideVars>>

\* websocket_endpoint, "ping": handle_ping answers with a pong; a failed
\* send disconnects the socket.
Ping(c, sendFails) ==
    /\ connection_metadata[c] # NoUser
    /\ IF sendFails
       THEN DisconnectAll({c})
       ELSE UNCHANGED <<active_connections, task_subscriptions, session_subscriptions,
                        connection_metadata, requested>>
    /\ UNCHANGED <<lastPublish, coreVars, pubVars, facadeVars, sideVars>>

\* websocket_endpoint, the finally branch: the peer has closed the socket.
ClientDisconnect(c) ==
    /\ connection_metadata[c] # NoUser
    /\ DisconnectAll({c})
    /\ UNCHANGED <<lastPublish, coreVars, pubVars, facadeVars, sideVars>>

\* broadcast_task_update / broadcast_session_update for one topic: the
\* message is built once and sent to every socket of every subscribed user;
\* failing is the set of sockets whose send raises, and
\* send_personal_message disconnects each of them.
Publish(topic, failing) ==
    /\ lastPublish' = [topic |-> topic,
                       attempts |-> [c \in Connections |-> Sends(topic, c)],
                       delivered |-> Recipients(topic) \ failing]
    /\ DisconnectAll(Recipients(topic) \cap failing)
    /\ UNCHANGED <<coreVars, pubVars, facadeVars, sideVars>>

(* ------------------ concurrent broadcasts (coroutines) ----------------- *)
\* One pass of the loop of send_user_message inside a broadcast: the
\* coroutine rec sends its message to the next socket of its copy of the
\* connection set and is then suspended in the await of send_text.
\* send_personal_message skips a socket that was closed meanwhile and
\* disconnects a socket whose send raises.
SendNext(p, rec, sendFails) ==
    LET c == CHOOSE x \in rec.conns : \A y \in rec.conns : x <= y
        rest == rec.conns \ {c}
    IN  /\ publisher' = [publisher EXCEPT
                           ![p] = IF rest = {} THEN PublisherIdle
                                  ELSE [rec EXCEPT !.conns = rest]]
        /\ IF connection_metadata[c] = NoUser
           THEN UNCHANGED <<active_connections, task_subscriptions,
                            session_subscriptions, connection_metadata,
                            requested, inbox>>
           ELSE IF sendFails
           THEN /\ DisconnectAll({c})
                /\ UNCHANGED inbox
           ELSE /\ inbox' = [inbox EXCEPT ![c] = Append(@, <<rec.topic, rec.msg>>)]
                /\ UNCHANGED <<active_connections, task_subscriptions,
                               session_subscriptions, connection_metadata, requested>>

\* A call of broadcast_task_update / broadcast_session_update by coroutine p,
\* up to its first suspension: nothing happens when the topic has no
\* subscribers, otherwise the copies are taken and the first send is made.
BroadcastBegin(p, topic, sendFails) ==
    /\ publisher[p].msg = 0
    /\ nextMessage <= MaxMessages
    /\ nextMessage' = nextMessage + 1
    /\ IF Recipients(topic) = {}
       THEN UNCHANGED <<active_connections, task_subscriptions, session_subscriptions,
                        connection_metadata, requested, inbox, publisher>>
       ELSE SendNext(p, [msg |-> nextMessage, topic |-> topic,
                         conns |-> Recipients(topic)], sendFails)
    /\ UNCHANGED <<lastPublish, coreVars, facadeVars, sideVars>>

\* The event loop resumes coroutine p: the next send of its broadcast.
BroadcastResume(p, sendFails) ==
    /\ publisher[p].msg # 0
    /\ SendNext(p, publisher[p], sendFails)
    /\ UNCHANGED <<nextMessage, lastPublish, coreVars, facadeVars, sideVars>>

(* ------- _monitor_task_execution (workers/task_worker, one second) ----- *)
max_iterations == 1800
PROGRESS_HORIZON == 600
REPORT_EVERY == 30
ERROR_STEP == 5

\* What one pass of the loop can meet: no status, a running container, an
\* exited container (code 0 or not), get_runner_status raising, or the
\* periodic update_task_status / broadcast raising.
MonitorStatusValues == {"none", "running", "exited0", "exited1", "raise", "update_raises"}

\* progress = min(0.9, iteration / 600)
IterationProgress(iteration) ==
    IF (iteration * PROGRESS_ONE) \div PROGRESS_HORIZON > PROGRESS_CAP
    THEN PROGRESS_CAP
    ELSE (iteration * PROGRESS_ONE) \div PROGRESS_HORIZON

\* except Exception: await asyncio.sleep(5); iteration += 5
AfterRaiseRestart(iteration) == 0
AfterRaise(iteration) == iteration + ERROR_STEP

\* The while test that follows the increment of the counter.
LoopPc(iteration) == IF iteration < max_iterations THEN "loop" ELSE "after_loop"

\* Entry: execution_result and the counter are initialised, the first test of
\* the while condition is passed.
MonitorEnter ==
    /\ runnerMonitor.pc = "idle"
    /\ runnerMonitor' = [MonitorIdle EXCEPT !.pc = LoopPc(0)]
    /\ UNCHANGED <<coreVars, wsVars, pubVars, facadeVars, agent, limiter, cleaned>>

\* One pass of the loop body, with the while test that follows it.
MonitorIterate(st) ==
    /\ runnerMonitor.pc = "loop"
    /\ st = "update_raises" =>
          (runnerMonitor.iteration > 0 /\ runnerMonitor.iteration % REPORT_EVERY = 0)
    /\ runnerMonitor' =
         CASE st = "raise" ->
                [runnerMonitor EXCEPT !.iteration = AfterRaise(@),
                                      !.pc = LoopPc(AfterRaise(runnerMonitor.iteration))]
           [] st = "none" ->
                [runnerMonitor EXCEPT !.pc = "after_loop"]
           [] st = "exited0" ->
                [runnerMonitor EXCEPT !.success = TRUE,
                                      !.message = "Task completed successfully",
                                      !.pc = "after_loop"]
           [] st = "exited1" ->
                [runnerMonitor EXCEPT !.success = FALSE,
                                      !.message = "Container exited with code",
                                      !.pc = "after_loop"]
           [] st = "update_raises" ->
                [runnerMonitor EXCEPT !.iteration = AfterRaise(@),
                                      !.pc = LoopPc(AfterRaise(runnerMonitor.iteration))]
           [] st = "running" ->
                [runnerMonitor EXCEPT
                    !.reported = IF /\ runnerMonitor.iteration > 0
                                    /\ runnerMonitor.iteration % REPORT_EVERY = 0
                                 THEN IterationProgress(runnerMonitor.iteration) ELSE @,
                    !.iteration = @ + 1,
                    !.pc = LoopPc(runnerMonitor.iteration + 1)]
    /\ UNCHANGED <<coreVars, wsVars, pubVars, facadeVars, agent, limiter, cleaned>>

\* After the loop: the timeout handling, the final logs, the return.
MonitorReturn ==
    /\ runnerMonitor.pc = "after_loop"
    /\ runnerMonitor' =
         IF runnerMonitor.iteration >= max_iterations
         THEN [runnerMonitor EXCEPT !.success = FALSE,
                                    !.message = "Task execution timeout",
                                    !.cancelled = TRUE,
                                    !.pc = "returned"]
         ELSE [runnerMonitor EXCEPT !.pc = "returned"]
    /\ UNCHANGED <<coreVars, wsVars, pubVars, facadeVars, agent, limiter, cleaned>>

NextTaskMonitor ==
    \/ MonitorEnter
    \/ \E st \in MonitorStatusValues : MonitorIterate(st)
    \/ MonitorReturn

\* The event loop keeps running the coroutine: each await of the loop returns.
SpecTaskMonitor == Init /\ [][NextTaskMonitor]_vars /\ WF_vars(NextTaskMonitor)

(* ------------- plan execution (runner agent and backend) --------------- *)
\* A plan is the list of its steps; of a step only step.get("critical", True)
\* matters to the loop.
Plans == UNION {[1..n -> BOOLEAN] : n \in 0..MaxSteps}

\* A progress value is the fraction num / den; None has den = 0.
Report(status, num, den) == [status |-> status, num |-> num, den |-> den]
NoProgress(status) == Report(status, 0, 0)

\* step_progress = 0.3 + (0.6 * (i + 1) / total_steps), as a fraction over
\* 10 * total_steps.
StepProgressUnscaled(i, total_steps) == Report("running", 3 + 6 * (i + 1), 10)
StepProgress(i, total_steps) ==
    Report("running", 3 * total_steps + 6 * (i + 1), 10 * total_steps)

\* if step.get("critical", True): raise
AbortsAlways(plan, k) == TRUE
Aborts(plan, k) == plan[k]

\* main: sys.exit(0 if result["success"] else 1)
ExitCodeZero(success) == "0"
ExitCode(success) == IF success THEN "0" ELSE "1"

\* except Exception in execute_task: log, report "failed", return.
AgentFailed(rec) ==
    [rec EXCEPT !.reports = Append(@, NoProgress("failed")),
                !.success = FALSE, !.pc = "returned"]

\* main: initialize() raises and the process exits with 1 before execute_task.
AgentInitializeFails ==
    /\ agent.pc = "idle"
    /\ agent' = [agent EXCEPT !.side = "runner", !.pc = "exited", !.exit = "1"]
    /\ UNCHANGED <<coreVars, wsVars, pubVars, facadeVars, runnerMonitor, limiter, cleaned>>

\* execute_task up to the end of analyze_repository.
AgentAnalyze(raises) ==
    /\ agent.pc = "idle"
    /\ LET started == [agent EXCEPT !.side = "runner",
                                    !.reports = <<Report("running", 1, 10)>>]
       IN agent' = IF raises THEN AgentFailed(started)
                   ELSE [started EXCEPT !.pc = "plan"]
    /\ UNCHANGED <<coreVars, wsVars, pubVars, facadeVars, runnerMonitor, limiter, cleaned>>

\* create_execution_plan, and the entry of execute_plan.
AgentCreatePlan(plan, raises) ==
    /\ agent.pc = "plan"
    /\ LET reported == [agent EXCEPT !.reports = Append(@, Report("running", 2, 10))]
       IN agent' = IF raises THEN AgentFailed(reported)
                   ELSE [reported EXCEPT !.plan = plan, !.i = 0, !.pc = "steps"]
    /\ UNCHANGED <<coreVars, wsVars, pubVars, facadeVars, runnerMonitor, limiter, cleaned>>

\* One pass of the for loop of execute_plan.
AgentStep(raises) ==
    /\ agent.side = "runner"
    /\ agent.pc = "steps"
    /\ agent.i < Len(agent.plan)
    /\ LET k == agent.i + 1
           called == [agent EXCEPT
                         !.reports = Append(@, StepProgress(agent.i, Len(agent.plan))),
                         !.executed = Append(@, k)]
       IN agent' =
            IF ~raises THEN [called EXCEPT !.i = k]
            ELSE IF Aborts(agent.plan, k)
                 THEN AgentFailed([called EXCEPT !.failed = @ \cup {k}])
                 ELSE [called EXCEPT !.failed = @ \cup {k}, !.i = k]
    /\ UNCHANGED <<coreVars, wsVars, pubVars, facadeVars, runnerMonitor, limiter, cleaned>>

\* After execute_plan: validate_results, create_commit, the terminal report.
AgentValidate(outcome) ==
    /\ agent.side = "runner"
    /\ agent.pc = "steps"
    /\ agent.i = Len(agent.plan)
    /\ LET reported == [agent EXCEPT !.reports = Append(@, Report("running", 9, 10))]
       IN agent' =
            CASE outcome = "valid" ->
                   [reported EXCEPT !.reports = Append(@, Report("completed", 10, 10)),
                                    !.success = TRUE, !.pc = "returned"]
              [] outcome \in {"invalid", "validate_raises", "commit_raises"} ->
                   AgentFailed(reported)
    /\ UNCHANGED <<coreVars, wsVars, pubVars, facadeVars, runnerMonitor, limiter, cleaned>>

\* main: the process exits once execute_task has returned.
AgentExit ==
    /\ agent.side = "runner"
    /\ agent.pc = "returned"
    /\ agent' = [agent EXCEPT !.pc = "exited",
                              !.exit = ExitCode(agent.success)]
    /\ UNCHANGED <<coreVars, wsVars, pubVars, facadeVars, runnerMonitor, limiter, cleaned>>

\* AgentExecutor._execute_plan of the backend: the entry with the plan made
\* by _create_plan.
ExecutePlanBegin(plan) ==
    /\ agent.pc = "idle"
    /\ agent' = [agent EXCEPT !.side = "backend", !.plan = plan, !.i = 0, !.pc = "steps"]
    /\ UNCHANGED <<coreVars, wsVars, pubVars, facadeVars, runnerMonitor, limiter, cleaned>>

\* One pass of the for loop of _execute_plan: the step returns a result, a
\* result with an error, or raises.
ExecutePlanStep(outcome) ==
    /\ agent.side = "backend"
    /\ agent.pc = "steps"
    /\ agent.i < Len(agent.plan)
    /\ LET k == agent.i + 1
           called == [agent EXCEPT !.executed = Append(@, k)]
       IN agent' =
            IF outcome = "ok" THEN [called EXCEPT !.i = k]
            ELSE IF Aborts(agent.plan, k)
                 THEN [called EXCEPT !.failed = @ \cup {k}, !.pc = "raised"]
                 ELSE [called EXCEPT !.failed = @ \cup {k}, !.i = k]
    /\ UNCHANGED <<coreVars, wsVars, pubVars, facadeVars, runnerMonitor, limiter, cleaned>>

\* The loop of _execute_plan is exhausted and the results are returned.
ExecutePlanReturn ==
    /\ agent.side = "backend"
    /\ agent.pc = "steps"
    /\ agent.i = Len(agent.plan)
    /\ agent' = [agent EXCEPT !.success = TRUE, !.pc = "returned"]
    /\ UNCHANGED <<coreVars, wsVars, pubVars, facadeVars, runnerMonitor, limiter, cleaned>>

NextAgent ==
    \/ AgentInitializeFails
    \/ \E raises \in BOOLEAN : AgentAnalyze(raises)
    \/ \E plan \in Plans, raises \in BOOLEAN : AgentCreatePlan(plan, raises)
    \/ \E raises \in BOOLEAN : AgentStep(raises)
    \/ \E outcome \in {"valid", "invalid", "validate_raises", "commit_raises"} :
          AgentValidate(outcome)
    \/ AgentExit
    \/ \E plan \in Plans : ExecutePlanBegin(plan)
    \/ \E outcome \in {"ok", "error", "raises"} : ExecutePlanStep(outcome)
    \/ ExecutePlanReturn

SpecAgent == Init /\ [][NextAgent]_vars

(* --------------------------- RateLimitMiddleware ----------------------- *)
Paths == {<<"/api/v1/tasks">>, <<"/api/v1/tasks", "/1">>, <<"/api/v1/tasks", "-old">>,
          <<"/api/v1/sessions", "/1">>, <<"/api/v1/repositories">>}

\* path.startswith(prefix)
StartsWith(path, prefix) ==
    /\ Len(prefix) <= Len(path)
    /\ SubSeq(path, 1, Len(prefix)) = prefix

\* RateLimitMiddleware._get_path_prefix
get_path_prefix(path) ==
    IF StartsWith(path, TASKS_PREFIX) THEN TASKS_PREFIX
    ELSE IF StartsWith(path, SESSIONS_PREFIX) THEN SESSIONS_PREFIX
    ELSE DEFAULT_PREFIX

\* request_times[0] < cutoff_time
ExpiredAtCutoff(t, cutoff_time) == t <= cutoff_time
Expired(t, cutoff_time) == t < cutoff_time

\* while request_times and request_times[0] < cutoff_time: popleft()
RECURSIVE PopExpired(_, _)
PopExpired(request_times, cutoff_time) ==
    IF request_times # <<>> /\ Expired(Head(request_times), cutoff_time)
    THEN PopExpired(Tail(request_times), cutoff_time)
    ELSE request_times

\* RateLimitMiddleware._check_rate_limit for a request of client_ip to path
\* at current_time; time.time() does not run backwards.
check_rate_limit(client_ip, path, current_time) ==
    /\ limiter.made < MaxRequestsMade
    /\ current_time >= limiter.last.time
    /\ LET path_prefix == get_path_prefix(path)
           max_requests == limits(path_prefix)[1]
           window_seconds == limits(path_prefix)[2]
           key == <<client_ip, path_prefix>>
           request_times == PopExpired(limiter.requests[key], current_time - window_seconds)
       IN IF Len(request_times) >= max_requests
          THEN limiter' = [limiter EXCEPT
                              !.requests[key] = request_times,
                              !.last = [key |-> key, time |-> current_time, admitted |-> FALSE],
                              !.made = @ + 1]
          ELSE limiter' = [limiter EXCEPT
                              !.requests[key] = Append(request_times, current_time),
                              !.admitted[key][current_time] = @ + 1,
                              !.last = [key |-> key, time |-> current_time, admitted |-> TRUE],
                              !.made = @ + 1]
    /\ UNCHANGED <<coreVars, wsVars, pubVars, facadeVars, runnerMonitor, agent, cleaned>>

NextLimiter ==
    \E client_ip \in Clients, path \in Paths, current_time \in 0..MaxTime :
        check_rate_limit(client_ip, path, current_time)

SpecLimiter == Init /\ [][NextLimiter]_vars

(* --------------------------- specifications --------------------------- *)
CreateResults == {"started", "start_failed", "no_row"}

\* The readings of the clock a monitor with a budget of so many minutes is
\* given: the first pass, the pass one sleep before the budget, the pass
\* that finds exactly the budget elapsed and the pass after it.
ElapsedReadings(minutes) ==
    {e \in {POLL_SECONDS, TimeoutSeconds(minutes) - POLL_SECONDS,
            TimeoutSeconds(minutes), TimeoutSeconds(minutes) + POLL_SECONDS} :
        e >= POLL_SECONDS}

\* _monitor_task_execution, line 212: min(0.9, elapsed_time / timeout).
ProgressOf(elapsed, timeout) ==
    LET q == (elapsed * PROGRESS_ONE) \div timeout
    IN  IF q < PROGRESS_CAP THEN q ELSE PROGRESS_CAP

\* The progress last broadcast by the attempt of a worker (its record rec):
\* the 0.1 of _execute_coding_task_async until the monitor has reported.
ReportedProgress(rec) ==
    IF rec.elapsed = 0
    THEN INITIAL_PROGRESS
    ELSE ProgressOf(rec.elapsed, TimeoutSeconds(rec.timeout))

\* One pass of the monitor of worker w with any reading of the clock.
MonitorPass(w, st) ==
    \E elapsed \in ElapsedReadings(worker[w].timeout) : WorkerPoll(w, elapsed, st)

\* The task endpoints, the session endpoints and RunnerService.stop_session.
NextExecutorApi ==
    \/ \E t \in Tasks : Submit(t, DEFAULT_TIMEOUT_MINUTES, DEFAULT_PRIORITY)
    \/ \E t \in Tasks : CancelTask(t)
    \/ \E s \in Sessions : StopSession(s)
    \/ \E t \in Tasks, res \in CreateResults : ApiCreateSession(t, res)
    \/ \E s \in Sessions : ApiCancelSession(s)

\* The task endpoints.
NextWorkerApi ==
    \/ \E t \in Tasks, m \in 1..MaxTimeoutMinutes : Submit(t, m, DEFAULT_PRIORITY)
    \/ \E t \in Tasks : CancelTask(t)

NextExecutor ==
    \/ \E w \in Workers : Dequeue(w)
    \/ \E w \in Workers : ExecStart(w)
    \/ \E w \in Workers, res \in CreateResults : ExecCreateSession(w, res)
    \/ \E w \in Workers : ExecPlan(w)
    \/ \E w \in Workers : ExecExecute(w)
    \/ \E w \in Workers : ExecValidate(w)
    \/ \E w \in Workers, success \in BOOLEAN : ExecFinish(w, success)
    \/ \E w \in Workers : ExecRaise(w)

NextWorker ==
    \/ \E w \in Workers : Dequeue(w)
    \/ \E w \in Workers : WorkerStart(w)
    \/ \E w \in Workers, res \in CreateResults : WorkerCreateRunner(w, res)
    \/ \E w \in Workers, st \in RunnerStatusValues : MonitorPass(w, st)
    \/ \E w \in Workers : WorkerFinalize(w)

\* Submission of tasks of every priority, and their cancellation.
NextDispatcherApi ==
    \/ \E t \in Tasks, p \in Priorities : Submit(t, DEFAULT_TIMEOUT_MINUTES, p)
    \/ \E t \in Tasks : CancelTask(t)

\* The dispatch of tasks of every priority to the executor.
SpecDispatcher == Init /\ [][NextDispatcherApi \/ NextExecutor]_vars

\* Submission with every timeout budget, and the cancellation of sessions.
NextMonitorApi ==
    \/ \E t \in Tasks, m \in 0..MaxMonitorTimeoutMinutes : Submit(t, m, DEFAULT_PRIORITY)
    \/ \E s \in Sessions : ApiCancelSession(s)

\* The task worker and its monitor under every timeout budget.
SpecMonitor == Init /\ [][NextMonitorApi \/ NextWorker]_vars

NextBroadcaster ==
    \/ \E c \in Connections, u \in Users, f \in BOOLEAN : Connect(c, u, f)
    \/ \E c \in Connections, topic \in Topics : Subscribe(c, topic)
    \/ \E c \in Connections, topic \in Topics : Unsubscribe(c, topic)
    \/ \E c \in Connections, f \in BOOLEAN : Ping(c, f)
    \/ \E c \in Connections : ClientDisconnect(c)
    \/ \E topic \in Topics, failing \in SUBSET Connections : Publish(topic, failing)

\* The websocket endpoint and the broadcasts of the ConnectionManager.
SpecBroadcaster == Init /\ [][NextBroadcaster]_vars

TaskTopics == {"task"} \X Tasks

NextPublishers ==
    \/ \E c \in Connections, u \in Users : Connect(c, u, FALSE)
    \/ \E c \in Connections, topic \in TaskTopics : Subscribe(c, topic)
    \/ \E c \in Connections : ClientDisconnect(c)
    \/ \E p \in Publishers, topic \in TaskTopics, f \in BOOLEAN :
          BroadcastBegin(p, topic, f)
    \/ \E p \in Publishers, f \in BOOLEAN : BroadcastResume(p, f)

\* Several coroutines of one event loop broadcasting to the connections of
\* the ConnectionManager.
SpecPublishers == Init /\ [][NextPublishers]_vars

\* Submissions with and without idempotency keys, valid and invalid.
NextFacadeApi ==
    \/ \E t \in Tasks, key \in Keys \cup {NoKey}, o \in SubmitOutcomes :
          SubmitRequest(t, key, o)
    \/ \E t \in Tasks : CancelTask(t)

\* The submission endpoint in front of the executor.
SpecFacade == Init /\ [][NextFacadeApi \/ NextExecutor]_vars

NextShutdownApi ==
    \/ \E t \in Tasks : Submit(t, DEFAULT_TIMEOUT_MINUTES, DEFAULT_PRIORITY)
    \/ Shutdown

\* The API with its shutdown hook, and the executor.
SpecShutdown == Init /\ [][NextShutdownApi \/ NextExecutor]_vars

\* The deployment that runs app/workers/task_executor.py.
SpecExecutor == Init /\ [][NextExecutorApi \/ NextExecutor]_vars

\* The deployment that runs app/workers/task_worker.py.
SpecWorker == Init /\ [][NextWorkerApi \/ NextWorker]_vars

(* ---------------- RunnerService.cleanup_finished_sessions --------------- *)
\* The statuses of the select: COMPLETED, FAILED, CANCELLED.
CleanupStatuses == {"completed", "failed", "cancelled"}

\* The where clause of the select; old holds the sessions whose completed_at
\* lies before the cutoff.
SelectsEverySession(s, old) == SessionExists(s)
SelectedForCleanup(s, old) ==
    /\ SessionExists(s)
    /\ sessStatus[s] \in CleanupStatuses
    /\ s \in old

\* cleanup_finished_sessions(older_than_hours): the container of each selected
\* session is stopped if the row names one, and the session leaves the
\* registry.  _stop_container does not raise.
CleanupFinishedSessions(old) ==
    /\ old \subseteq {s \in Sessions : SessionExists(s) /\ sessCompletedAt[s] # 0}
    /\ LET sessions_to_cleanup == {s \in Sessions : SelectedForCleanup(s, old)}
       IN /\ stoppedContainers' =
                stoppedContainers \cup {s \in sessions_to_cleanup : sessContainer[s]}
          /\ activeSessions' = activeSessions \ sessions_to_cleanup
          /\ cleaned' = sessions_to_cleanup
    /\ UNCHANGED <<wsVars, pubVars, facadeVars, runnerMonitor, agent, limiter,
                   runnerMaxConcurrent, taskStatus, taskPriority, queue, celeryState,
                   cancelSignal, cancelledQueued, nextSession, sessTask, sessStatus,
                   sessContainer, sessCompletedAt, worker>>

NextCleanupApi ==
    \/ \E t \in Tasks : Submit(t, DEFAULT_TIMEOUT_MINUTES, DEFAULT_PRIORITY)
    \/ \E s \in Sessions : StopSession(s)
    \/ \E old \in SUBSET Sessions : CleanupFinishedSessions(old)

SpecCleanup == Init /\ [][NextCleanupApi \/ NextExecutor]_vars

(* ------------------------------ properties ---------------------------- *)
\* C1: a task whose status is Completed, Failed or Cancelled keeps that
\* status in every later step; it is never seen Queued or Running again.
TaskStatusMonotonic ==
    [][\A t \in Tasks :
         TaskFinished(taskStatus[t]) => taskStatus'[t] = taskStatus[t]]_vars

\* C2: at every instant each task has at most one session whose status is
\* not terminal.
OneNonTerminalSessionPerTask ==
    \A t \in Tasks : Cardinality(NonTerminalSessions(t)) <= 1

\* The phase of the session state machine a stored status belongs to: the
\* statuses PLANNING, EXECUTING and VALIDATING are phases of Running.
SessionPhase(st) ==
    IF st \in {"running", "planning", "executing", "validating"} THEN "running" ELSE st

\* The transitions of the session state machine.
canTransition(cur, next) ==
    LET c == SessionPhase(cur)
        n == SessionPhase(next)
    IN  \/ c = "initializing" /\ n \in {"running", "failed", "cancelled"}
        \/ c = "running" /\ n \in {"running", "completed", "failed", "timeout", "cancelled"}

\* C3: the status of a session changes only along Initializing -> Running ->
\* {Completed, Failed, Timeout}, Initializing -> Failed, or from a
\* non-terminal status to Cancelled; a terminal status never changes.
SessionTransitionsLegal ==
    [][\A s \in Sessions :
         (SessionExists(s) /\ sessStatus'[s] # sessStatus[s])
            => canTransition(sessStatus[s], sessStatus'[s])]_vars

RetryCountBounded ==
    /\ \A w \in Workers : worker[w].retries <= max_retries
    /\ \A i \in 1..Len(queue) : queue[i].retries <= max_retries

\* With task rows ts, queue q and workers wk: task t is Failed, no message
\* of it is queued and no worker holds it.
PermanentlyFailedIn(ts, q, wk, t) ==
    /\ ts[t] = "failed"
    /\ \A i \in 1..Len(q) : q[i].task # t
    /\ \A w \in Workers : wk[w].pc = "idle" \/ wk[w].task # t

PermanentlyFailed(t) == PermanentlyFailedIn(taskStatus, queue, worker, t)

\* Worker w ends an execution attempt with a failure in this step.
AttemptFails(w) ==
    /\ worker[w].pc # "idle"
    /\ worker'[w].pc = "idle"
    /\ ~(worker[w].pc = "b_final" /\ worker[w].outcome = "success")

\* C4: the retry count of a task never exceeds max_retries, and a failure
\* of the attempt made with retry count max_retries leaves the task Failed,
\* not queued and held by no worker, and it stays so in every later step.
RetriesBoundedThenPermanentFailure ==
    [][/\ RetryCountBounded'
       /\ \A w \in Workers :
            (AttemptFails(w) /\ worker[w].retries = max_retries)
               => PermanentlyFailedIn(taskStatus', queue', worker', worker[w].task)
       /\ \A t \in Tasks :
            PermanentlyFailed(t) => PermanentlyFailedIn(taskStatus', queue', worker', t)]_vars

\* A task was given up after the failure of the attempt with retry count
\* max_retries.
GivenUpAfterMaxRetries ==
    \E t \in Tasks : celeryState[t] = "FAILURE" /\ PermanentlyFailed(t)

\* C5: when the monitor has found the elapsed time over the timeout budget
\* and stopped polling, the session has status Timeout.
TimedOutSessionIsTimeout ==
    \A w \in Workers :
       (worker[w].pc = "b_final" /\ worker[w].outcome = "timeout")
          => sessStatus[worker[w].sess] = "timeout"

\* C6: the first poll the monitor makes after the cancellation of its
\* running task was requested makes the session Cancelled and ends the
\* polling.
CancelObservedAtNextPoll ==
    [][\A w \in Workers :
         (/\ worker[w].pc = "b_poll"
          /\ worker[w].task \in cancelSignal
          /\ worker'[w] # worker[w])
            => (sessStatus'[worker[w].sess] = "cancelled" /\ worker'[w].pc # "b_poll")]_vars

\* C7: a task whose cancellation was accepted while it was Queued never has
\* a session.
CancelledQueuedTaskHasNoSession ==
    \A t \in cancelledQueued : SessionsOf(t) = {}

\* C8: a session that is Cancelled is never made Completed or Failed by a
\* later write of the executor or the monitor.
CancelledNotOverwritten ==
    [][\A s \in Sessions :
         sessStatus[s] = "cancelled" => sessStatus'[s] \notin {"completed", "failed"}]_vars

\* C9: a stop of a session that is already terminal returns false and
\* leaves the status, completed_at and the registry of active sessions
\* unchanged.
StopOfTerminalSessionIsNoOp ==
    [][\A s \in Sessions :
         (SessionFinished(sessStatus[s]) /\ StopSession(s))
            => /\ ~stop_session_returns(s)
               /\ sessStatus'[s] = sessStatus[s]
               /\ sessCompletedAt'[s] = sessCompletedAt[s]
               /\ activeSessions' = activeSessions]_vars

\* C10: the number of tasks that are Running at the same time never exceeds
\* the configured cap RUNNER_MAX_CONCURRENT.
RunningTasksWithinCap ==
    Cardinality({t \in Tasks : taskStatus[t] = "running"}) <= runnerMaxConcurrent

ExitCodeDecidesSessionStatus ==
    [][\A w \in Workers :
         (worker[w].pc = "b_final" /\ worker'[w].pc = "idle")
            => /\ worker[w].outcome = "success"
                    => /\ sessStatus'[worker[w].sess] = "completed"
                       /\ taskStatus'[worker[w].task] = "completed"
               /\ worker[w].outcome = "exit_failed"
                    => sessStatus'[worker[w].sess] = "failed"]_vars

\* C13: the progress an attempt reports stays in [0,1] and never decreases
\* from one update to the next.
ProgressNeverDecreases ==
    [][\A w \in Workers :
         (worker[w].pc = "b_poll" /\ worker'[w].pc = "b_poll")
            => /\ ReportedProgress(worker'[w]) \in 0..PROGRESS_ONE
               /\ ReportedProgress(worker'[w]) >= ReportedProgress(worker[w])]_vars

\* Worker w ends an attempt in this step by an error of one of its calls or
\* after its runner exited with a non-zero code.
ExecutionFails(w) ==
    /\ worker'[w].pc = "idle"
    /\ \/ worker[w].pc \in {"b_create", "b_poll"}
       \/ worker[w].pc = "b_final" /\ worker[w].outcome = "exit_failed"

\* C14: when an attempt fails and the task has retries left, the task is
\* queued again with its retry count incremented by one, after an error of
\* a call and after a non-zero exit code alike.
FailureWithRetriesLeftIsRetried ==
    [][\A w \in Workers :
         (ExecutionFails(w) /\ worker[w].retries < max_retries)
            => \E i \in 1..Len(queue') :
                  /\ queue'[i].task = worker[w].task
                  /\ queue'[i].retries = worker[w].retries + 1]_vars

\* C15: when an attempt ends whose session was Cancelled on request, the
\* task becomes Cancelled and is not queued again.
CancelledSessionNeverRetried ==
    [][\A w \in Workers :
         (/\ worker[w].pc \in {"b_poll", "b_final"}
          /\ worker[w].outcome # "timeout"
          /\ sessStatus[worker[w].sess] = "cancelled"
          /\ worker'[w].pc = "idle")
            => /\ taskStatus'[worker[w].task] = "cancelled"
               /\ \A i \in 1..Len(queue') : queue'[i].task # worker[w].task]_vars

\* C16: the first pass of the monitor of a task with a timeout of 0 minutes
\* that finds the runner running makes the session Timeout; the task is
\* queued again while it has retries left and is Failed for good after that.
ZeroTimeoutEndsTimeout ==
    [][\A w \in Workers : \A e \in ElapsedReadings(0) :
         (worker[w].timeout = 0 /\ WorkerPoll(w, e, "running"))
            => /\ sessStatus'[worker[w].sess] = "timeout"
               /\ IF worker[w].retries < max_retries
                  THEN \E i \in 1..Len(queue') :
                          /\ queue'[i].task = worker[w].task
                          /\ queue'[i].retries = worker[w].retries + 1
                  ELSE PermanentlyFailedIn(taskStatus', queue', worker', worker[w].task)]_vars

(* ----------------------------- broadcaster ----------------------------- *)
\* The topic is a key of neither subscription dictionary.
NotInRegistry(topic) ==
    IF topic[1] = "task" THEN task_subscriptions[topic[2]] = {}
    ELSE session_subscriptions[topic[2]] = {}

\* C17: publishing to a topic that has no subscribers sends no message to
\* any connection and leaves the subscription registries and the connection
\* registry as they were (the call returns normally: Publish has no failing
\* outcome for it).
PublishWithoutSubscribersIsNoOp ==
    [][\A topic \in Topics : \A failing \in SUBSET Connections :
         (NotInRegistry(topic) /\ Publish(topic, failing))
            => /\ \A c \in Connections : lastPublish'.attempts[c] = 0
               /\ lastPublish'.delivered = {}
               /\ UNCHANGED <<active_connections, task_subscriptions,
                              session_subscriptions, connection_metadata>>]_vars

\* A broadcast to a topic without subscribers has happened while a
\* connection was open and subscribed to another topic.
PublishedWithoutSubscribers ==
    /\ lastPublish.topic \in Topics
    /\ NotInRegistry(lastPublish.topic)
    /\ \A c \in Connections : lastPublish.attempts[c] = 0
    /\ \E c \in Connections :
          /\ connection_metadata[c] # NoUser
          /\ requested[c] # {}
          /\ \E other \in Topics : ~NotInRegistry(other)

\* C18: when a send fails during a publish, the failing connection is
\* removed and not sent to again, and every other connection subscribed to
\* the topic receives the message and is still a recipient of the topic
\* after the publish.
FailedDeliveryLeavesOthersSubscribed ==
    [][\A topic \in Topics : \A failing \in SUBSET Connections :
         (Publish(topic, failing) /\ Recipients(topic) \cap failing # {})
            => /\ \A c \in Recipients(topic) \cap failing :
                     /\ connection_metadata'[c] = NoUser
                     /\ lastPublish'.attempts[c] = 1
               /\ \A c \in Recipients(topic) \ failing :
                     topic \in requested[c]
                        => /\ c \in lastPublish'.delivered
                           /\ c \in Recipients(topic)']_vars

\* C19: a publish sends to exactly the connections that subscribed to the
\* topic; a connection that subscribed only to other topics is sent nothing.
DeliveredExactlyToSubscribers ==
    [][\A topic \in Topics : \A failing \in SUBSET Connections :
         Publish(topic, failing)
            => \A c \in Connections :
                  lastPublish'.attempts[c] > 0 <=> topic \in requested[c]]_vars

\* C20: in one publish every connection is sent the message at most once.
AtMostOncePerPublish ==
    \A c \in Connections : lastPublish.attempts[c] <= 1

\* A publish has sent its message to two subscribed connections.
PublishedToTwoConnections ==
    /\ lastPublish.topic \in Topics
    /\ \A c \in Connections :
          /\ lastPublish.attempts[c] = 1
          /\ lastPublish.topic \in requested[c]

\* C21: the messages of one topic reach a connection in the order of the
\* broadcast calls, whatever the interleaving of the broadcasting coroutines.
DeliveredInPublishOrder ==
    \A c \in Connections : \A i, j \in 1..Len(inbox[c]) :
       (i < j /\ inbox[c][i][1] = inbox[c][j][1])
          => inbox[c][i][2] < inbox[c][j][2]

\* C22: a second submission with the idempotency key of an existing task
\* creates no second task: no two tasks carry the same key.
SubmitIdempotentOnKey ==
    \A t1, t2 \in Tasks :
       (t1 # t2 /\ taskStatus[t1] # "none" /\ taskStatus[t2] # "none"
          /\ taskKey[t1] # NoKey)
          => taskKey[t1] # taskKey[t2]

\* C23: a submission that does not answer with the created task leaves no
\* task behind and queues nothing.
FailedSubmissionLeavesNoTask ==
    [][\A t \in Tasks : \A key \in Keys \cup {NoKey} : \A o \in SubmitOutcomes :
         (o # "created" /\ SubmitRequest(t, key, o))
            => UNCHANGED <<taskStatus, queue>>]_vars

\* C24: when the runtime of a new session cannot be created, the session
\* goes from Initializing to Failed with no runtime handle registered, and
\* the task is retried while it has retries left.
FailedRuntimeCreationFailsSession ==
    [][\A w \in Workers :
         (worker[w].pc = "a_create" /\ ExecCreateSession(w, "start_failed"))
            => /\ sessStatus'[nextSession] = "failed"
               /\ nextSession \notin activeSessions'
               /\ worker[w].retries < max_retries
                     => \E i \in 1..Len(queue') :
                           /\ queue'[i].task = worker[w].task
                           /\ queue'[i].retries = worker[w].retries + 1]_vars

\* C25: when the shutdown has run, the queue is drained and every session
\* is terminal, so that none is Initializing or Running any more.
ShutdownCancelsAndDrains ==
    [][Shutdown
         => /\ queue' = <<>>
            /\ \A s \in Sessions :
                  SessionExists(s) => SessionFinished(sessStatus'[s])]_vars

\* C26: a session in a terminal status has no entry in the registry of
\* active runtimes.
TerminalSessionHoldsNoHandle ==
    \A s \in Sessions :
       (SessionExists(s) /\ SessionFinished(sessStatus[s])) => s \notin activeSessions

\* C27: a poll that cannot reach the runtime is a transient error: either
\* the monitor keeps polling, or it gives up and then the session is Failed
\* by the time the worker is done with the task.
UnreachableRuntimeIsTransient ==
    [][\A w \in Workers :
         /\ \A e \in ElapsedReadings(worker[w].timeout) :
               (WorkerPoll(w, e, "raise") \/ WorkerPoll(w, e, "none"))
                  => \/ worker'[w].pc \in {"b_poll", "b_final"}
                     \/ sessStatus'[worker[w].sess] = "failed"
         /\ (worker[w].pc = "b_final" /\ worker[w].outcome = "lost"
                /\ worker'[w].pc = "idle")
               => sessStatus'[worker[w].sess] = "failed"]_vars

\* C28: a pass of the monitor that finds the same status and the same
\* progress as the pass before it broadcasts no second event.
NoEventWithoutObservableChange ==
    [][\A w \in Workers :
         (/\ worker[w].pc = "b_poll"
          /\ worker'[w].pc = "b_poll"
          /\ worker[w].elapsed # 0
          /\ ReportedProgress(worker'[w]) = ReportedProgress(worker[w]))
            => worker'[w].sent = worker[w].sent]_vars

\* The longest delay a retry can get: the retry count of a failure that is
\* retried is below max_retries.  The code states no cap of its own.
BackoffCap == BACKOFF_BASE * Pow2(max_retries - 1)

LastSessionOf(t) == CHOOSE s \in SessionsOf(t) : \A x \in SessionsOf(t) : x <= s

\* C30: a task in a terminal status that has sessions has a terminal last
\* session, and the status of the task is the status of that session (a
\* session that timed out makes a Failed task).
TerminalTaskReflectsLastSession ==
    \A t \in Tasks :
       (TaskFinished(taskStatus[t]) /\ SessionsOf(t) # {})
          => /\ SessionFinished(sessStatus[LastSessionOf(t)])
             /\ taskStatus[t] =
                   IF sessStatus[LastSessionOf(t)] = "timeout" THEN "failed"
                   ELSE sessStatus[LastSessionOf(t)]

\* C31: a retry attempt gets a new session, and when that session is
\* created every earlier session of the task is terminal; no step moves a
\* terminal session of the worker path back to a non-terminal status.
FreshSessionPerAttempt ==
    [][/\ \A w \in Workers :
            (worker[w].pc = "b_create" /\ worker'[w].pc = "b_poll")
               => /\ worker'[w].sess \notin SessionsOf(worker[w].task)
                  /\ \A s \in SessionsOf(worker[w].task) :
                        SessionFinished(sessStatus[s])
       /\ \A s \in Sessions :
            (SessionExists(s) /\ SessionFinished(sessStatus[s]))
               => SessionFinished(sessStatus'[s])]_vars

\* C32: only connected sockets hold subscriptions; when a socket
\* disconnects it is a recipient of no topic afterwards, and every other
\* connected socket is still a recipient of the topics it subscribed to.
DisconnectRemovesOnlyOwnSubscriptions ==
    [][\A c \in Connections :
         (connection_metadata[c] # NoUser /\ ClientDisconnect(c))
            => /\ \A topic \in Topics : c \notin Recipients(topic)'
               /\ \A other \in Connections \ {c} : \A topic \in requested[other] :
                     other \in Recipients(topic) => other \in Recipients(topic)']_vars

\* C33: while a session is running the reported progress is
\* min(0.9, elapsed / timeout) and never above 0.9.  In the one-second monitor
\* the elapsed time is the counter and the timeout is the bound of the loop.
ProgressIsElapsedOverTimeout ==
    (runnerMonitor.pc = "loop" /\ runnerMonitor.iteration > 0)
       => /\ runnerMonitor.reported <= PROGRESS_CAP
          /\ runnerMonitor.reported
                <= (runnerMonitor.iteration * PROGRESS_ONE) \div max_iterations

StepsInPlanOrder ==
    /\ \A k \in 1..Len(agent.executed) : agent.executed[k] = k
    /\ \A k \in agent.failed :
          agent.plan[k] => (Len(agent.executed) = k /\ agent.pc # "steps")
    /\ \A k \in agent.failed :
          (~agent.plan[k] /\ Len(agent.executed) = k /\ k < Len(agent.plan))
             => agent.pc = "steps"

StepRanAfterNonCriticalFailure ==
    /\ agent.side = "backend"
    /\ \E k \in agent.failed : ~agent.plan[k] /\ Len(agent.executed) > k
    /\ \E k \in agent.failed : agent.plan[k]

TerminalReports(reports) ==
    {k \in 1..Len(reports) : reports[k].status \in {"completed", "failed"}}

\* C36: a run of execute_task that has returned made exactly one terminal
\* report, as its last report, and the process exits with 0 exactly when
\* that report was 'completed'.
OneTerminalReportLast ==
    /\ (agent.side = "runner" /\ agent.pc \in {"returned", "exited"} /\ agent.reports # <<>>)
          => TerminalReports(agent.reports) = {Len(agent.reports)}
    /\ (agent.side = "runner" /\ agent.pc \notin {"returned", "exited"})
          => TerminalReports(agent.reports) = {}
    /\ (agent.side = "runner" /\ agent.pc = "exited" /\ agent.reports # <<>>)
          => (agent.exit = "0"
                 <=> agent.reports[Len(agent.reports)].status = "completed")

ExitedAfterCompleted ==
    /\ agent.pc = "exited"
    /\ agent.exit = "0"
    /\ agent.reports[Len(agent.reports)].status = "completed"

\* p <= q for two progress fractions.
ProgressLeq(p, q) == p.num * q.den <= q.num * p.den

\* C37: the progress values reported during one execution never decrease,
\* lie within [0.1, 1.0], and 1.0 comes only with 'completed'.
ReportedProgressMonotone ==
    agent.side = "runner" =>
       /\ \A k \in 1..Len(agent.reports) :
             agent.reports[k].den # 0 =>
                /\ ProgressLeq(Report("running", 1, 10), agent.reports[k])
                /\ ProgressLeq(agent.reports[k], Report("running", 10, 10))
                /\ ProgressLeq(Report("running", 10, 10), agent.reports[k])
                      => agent.reports[k].status = "completed"
       /\ \A j, k \in 1..Len(agent.reports) :
             (j < k /\ agent.reports[j].den # 0 /\ agent.reports[k].den # 0)
                => ProgressLeq(agent.reports[j], agent.reports[k])

CompletedLongestPlan ==
    /\ agent.pc = "returned"
    /\ agent.success
    /\ Len(agent.plan) = MaxSteps
    /\ Len(agent.reports) = MaxSteps + 4

RECURSIVE SumAdmitted(_, _, _)
\* The number of requests of key k admitted at the times from..to.
SumAdmitted(k, from, to) ==
    IF from > to THEN 0
    ELSE limiter.admitted[k][from] + SumAdmitted(k, from + 1, to)

AdmittedInWindow(k, t) ==
    SumAdmitted(k, t, IF t + limits(k[2])[2] > MaxTime THEN MaxTime ELSE t + limits(k[2])[2])

\* C35: per (client IP, path prefix) at most max_requests requests are
\* admitted in any window of window_seconds; a rejected request is not
\* recorded; a request of one pair leaves the window of every other pair as
\* it was.
RateLimitPerPair ==
    [][\A k \in LimiterKeys :
         /\ \A t \in 0..MaxTime : AdmittedInWindow(k, t)' <= limits(k[2])[1]
         /\ (limiter'.made # limiter.made /\ limiter'.last.key = k /\ ~limiter'.last.admitted)
               => /\ limiter'.admitted[k] = limiter.admitted[k]
                  /\ \A j \in 1..Len(limiter'.requests[k]) :
                        \E i \in 1..Len(limiter.requests[k]) :
                           limiter'.requests[k][j] = limiter.requests[k][i]
                  /\ Len(limiter'.requests[k]) <= Len(limiter.requests[k])
         /\ (limiter'.made # limiter.made /\ limiter'.last.key # k)
               => /\ limiter'.requests[k] = limiter.requests[k]
                  /\ limiter'.admitted[k] = limiter.admitted[k]]_vars

RejectedWhileOtherPairAdmitted ==
    /\ ~limiter.last.admitted
    /\ limiter.made > 0
    /\ Len(limiter.requests[limiter.last.key]) = limits(limiter.last.key[2])[1]
    /\ \E k \in LimiterKeys :
          /\ k # limiter.last.key
          /\ limiter.admitted[k][limiter.last.time] > 0

\* C38: cleanup_finished_sessions stops the container of, and removes from
\* the registry, only sessions that are completed, failed or cancelled and
\* completed before the cutoff, and it changes no session's status.
CleanupOnlyOldFinished ==
    [][\A old \in SUBSET Sessions :
         CleanupFinishedSessions(old)
            => /\ sessStatus' = sessStatus
               /\ \A s \in Sessions :
                     (~SessionFinished(sessStatus[s]) \/ s \notin old)
                        => /\ (s \in activeSessions <=> s \in activeSessions')
                           /\ (s \in stoppedContainers <=> s \in stoppedContainers')]_vars

CleanedWhileOtherSessionRuns ==
    \E s \in cleaned :
       /\ sessStatus[s] = "completed"
       /\ s \in stoppedContainers
       /\ s \notin activeSessions
       /\ \E other \in activeSessions : ~SessionFinished(sessStatus[other])

====
